---- MODULE Spec2Model ----
(***************************************************************************)
(* The transform result cache of nuclide-node-transpiler:                  *)
(* NodeTranspiler (shouldCompile, getConfigDigest, transform,              *)
(* transformWithCache, _getCacheFilename) and cacheWriteAsync, as found in *)
(* src/pkg/nuclide-file-tree/components/FileTree.js lines 264-461.         *)
(*                                                                         *)
(* Several node processes (one NodeTranspiler instance each) share one     *)
(* temp directory.  A call to transformWithCache is synchronous inside its *)
(* process, but the other processes, the write-backs' filesystem           *)
(* operations and the environment interleave with its system calls.        *)
(***************************************************************************)
EXTENDS Integers, Sequences, FiniteSets, TLC

(***************************************************************************)
(* Bounds of the exploration.                                              *)
(***************************************************************************)
\* transformWithCache calls started, over all processes
MaxCalls == 2
\* steps taken by the environment (other programs touching the temp
\* directory or the logic-unit files)
MaxExternal == 1

Procs == {"p1", "p2"}

(***************************************************************************)
(* Strings and bytes.  A JavaScript string is a sequence of UTF-16 code    *)
(* units; an ASCII unit is written as itself ("a", "{"), the others as     *)
(* "U+xxxx".  A byte is written as the ASCII unit it encodes, or as two    *)
(* hex digits.                                                             *)
(***************************************************************************)
NUL == "NUL"

EAcute == "U+00E9"

\* an unpaired surrogate: a code unit that is not a character
LoneSurrogate == "U+D800"

Replacement == "U+FFFD"

NonAscii == {EAcute, LoneSurrogate, Replacement}

LeadBytes == {"C3", "EF"}

ContinuationBytes == {"A9", "BF", "BD"}

IsAsciiByte(b) == b \notin LeadBytes \cup ContinuationBytes

\* what node writes for one code unit of a string under 'utf8'
Utf8Unit(c) ==
  CASE c = EAcute -> <<"C3", "A9">>
    [] c = LoneSurrogate -> <<"EF", "BF", "BD">>
    [] c = Replacement -> <<"EF", "BF", "BD">>
    [] OTHER -> <<c>>

RECURSIVE Utf8Encode(_)
Utf8Encode(str) ==
  IF str = <<>> THEN <<>>
  ELSE Utf8Unit(Head(str)) \o Utf8Encode(Tail(str))

\* the sequence s without its first n elements
Drop(s, n) == SubSeq(s, n + 1, Len(s))

\* buf.toString('utf8'): ill-formed or cut sequences become U+FFFD
RECURSIVE Utf8Decode(_)
Utf8Decode(bytes) ==
  IF bytes = <<>> THEN <<>>
  ELSE LET b == Head(bytes)
           n == Len(bytes)
       IN  CASE IsAsciiByte(b) -> <<b>> \o Utf8Decode(Tail(bytes))
             [] b = "C3" ->
                  IF n >= 2 /\ bytes[2] = "A9"
                  THEN <<EAcute>> \o Utf8Decode(Drop(bytes, 2))
                  ELSE <<Replacement>> \o Utf8Decode(Tail(bytes))
             [] b = "EF" ->
                  IF n >= 3 /\ bytes[2] = "BF" /\ bytes[3] = "BD"
                  THEN <<Replacement>> \o Utf8Decode(Drop(bytes, 3))
                  ELSE IF n >= 2 /\ bytes[2] = "BF"
                  THEN <<Replacement>> \o Utf8Decode(Drop(bytes, 2))
                  ELSE <<Replacement>> \o Utf8Decode(Tail(bytes))
             [] OTHER -> <<Replacement>> \o Utf8Decode(Tail(bytes))

\* a string every unit of which belongs to a character
WellFormed(str) == \A i \in 1..Len(str) : str[i] # LoneSurrogate

Range(s) == {s[i] : i \in 1..Len(s)}

IsPrefix(a, b) == Len(a) <= Len(b) /\ SubSeq(b, 1, Len(a)) = a

\* crypto.createHash('sha1')...digest('hex') of a byte stream, taken to be
\* free of collisions: the digest stands for the stream it was fed
Sha1Hex(stream) == [sha1 |-> stream]

(***************************************************************************)
(* Configuration and sources.                                              *)
(***************************************************************************)
Null == [null |-> TRUE]

\* the tool identifier fed to the hash, 'babel-core'
ToolId == <<"b", "a", "b", "e", "l", "-", "c", "o", "r", "e">>

\* babel versions a process may be constructed with
Versions == {<<"5">>, <<"6">>}

\* JSON.stringify(BABEL_OPTIONS), cut short: an object text
BabelOptionsJson == <<"{", "s", "}">>

\* [__filename].concat(BABEL_OPTIONS.plugins): this file and the two plugins
UnitNames == <<"NodeTranspiler.js", "remove-use-babel-tr.js", "inline-imports-tr.js">>

UnitIds == 1..Len(UnitNames)

File(bytes) == [exists |-> TRUE, data |-> bytes]

NoFile == [exists |-> FALSE, data |-> <<>>]

\* the logic units as first installed
InstalledUnits == [i \in UnitIds |-> File(<<"t">>)]

\* a later revision of a logic unit
RevisedUnit == <<"t", "t">>

Buf(bytes) == [isBuffer |-> TRUE, data |-> bytes]

Str(units) == [isBuffer |-> FALSE, data |-> units]

\* A "(" does not parse; "u" stands for an escape that the generator prints
\* as the code unit it denotes, an unpaired surrogate.
Sources == {Buf(<<"C3", "A9">>), Str(<<EAcute>>), Str(<<"u">>), Str(<<"(">>)}

\* the advisory file names
Filenames == {"a.js", "b.js"}

(***************************************************************************)
(* getConfigDigest's hash input.                                           *)
(***************************************************************************)
RECURSIVE UnitStream(_)
UnitStream(units) ==
  IF units = <<>> THEN <<>>
  ELSE Head(units) \o <<NUL>> \o UnitStream(Tail(units))

DigestStream(version, options, units) ==
  Utf8Encode(ToolId) \o <<NUL>> \o Utf8Encode(version) \o <<NUL>>
    \o Utf8Encode(options) \o UnitStream(units)

ConfigDigestOf(version, options, units) ==
  Sha1Hex(DigestStream(version, options, units))

(***************************************************************************)
(* Paths.                                                                  *)
(***************************************************************************)
\* one directory for every configuration
CacheDirUnversioned(digest) ==
  [tmpdir |-> "tmp", sub |-> "nuclide-node-transpiler", digest |-> Null]

\* path.join(os.tmpdir(), 'nuclide-node-transpiler', configDigest)
CacheDirOf(configDigest) ==
  [tmpdir |-> "tmp", sub |-> "nuclide-node-transpiler", digest |-> configDigest]

PathJoin(dir, base) == [dir |-> dir, base |-> base]

PathDirname(path) == path.dir

\* hash.update(src) without the encoding: a string is hashed as 'binary',
\* one byte for each code unit
Latin1Unit(c) ==
  CASE c = EAcute -> "E9"
    [] c = LoneSurrogate -> "00"
    [] c = Replacement -> "FD"
    [] OTHER -> c

SourceBytesBinary(src) ==
  IF src.isBuffer THEN src.data
  ELSE [i \in 1..Len(src.data) |-> Latin1Unit(src.data[i])]

\* the bytes hashed for a source: a buffer's own, a string's under 'utf8'
SourceBytes(src) == IF src.isBuffer THEN src.data ELSE Utf8Encode(src.data)

FileDigest(src) == Sha1Hex(SourceBytes(src))

\* fileDigest + '.js'
EntryName(src) == [stem |-> FileDigest(src), ext |-> ".js"]

CacheFilenameOf(dir, src) == PathJoin(dir, EntryName(src))

\* one fixed dot-prefixed name in place of '.' + uuid.v4()
TmpBaseFixed(uuid) == [dot |-> ".", uuid |-> 0]

\* '.' + uuid.v4()
TmpBase(uuid) == [dot |-> ".", uuid |-> uuid]

TmpNameOf(filename, uuid) == PathJoin(PathDirname(filename), TmpBase(uuid))

(***************************************************************************)
(* The transformation engine, a deterministic black box.                   *)
(***************************************************************************)
\* Buffer.isBuffer(src) ? src.toString() : src
InputOf(src) == IF src.isBuffer THEN Utf8Decode(src.data) ELSE src.data

Rejects(input) == "(" \in Range(input)

GenUnit(c) == IF c = "u" THEN LoneSurrogate ELSE c

\* babel.transform(input, BABEL_OPTIONS).code, for an input it accepts
BabelCode(version, input) ==
  [i \in 1..Len(input) |-> GenUnit(input[i])] \o version

\* what transform returns for a source the engine accepts
OutputOf(version, src) == BabelCode(version, InputOf(src))

(***************************************************************************)
(* State.                                                                  *)
(***************************************************************************)
VARIABLES
  \* per process: the constructor's version and the options of its module;
  \* the logic-unit files of the installation
  babelVersion, babelOptions, unitFiles,
  \* per process: this._babel, this._cacheDir, this._configDigest, and the
  \* logic-unit bytes that were hashed into this._configDigest
  babel, cacheDir, configDigest, hashedUnits,
  \* per process: the call of transformWithCache in progress, and the
  \* outcome of the last call that ended
  call, ret,
  \* the write-backs scheduled so far; a write-back's index is its uuid
  wbs,
  \* the temp directory: the mode of <tmp>/nuclide-node-transpiler, the
  \* namespace directories with their modes, the files in them, and
  \* whether the disk is full
  rootMode, dirs, files, diskFull,
  \* the lines written with console.error
  console,
  \* per process: calls of this._getBabel, of babel.transform, and reads of
  \* logic-unit files
  getBabelCalls, engineCalls, unitReads,
  \* calls started and environment steps taken
  nCalls, nExternal

config == <<babelVersion, babelOptions>>

instance == <<babel, cacheDir, configDigest, hashedUnits>>

fs == <<rootMode, dirs, files, diskFull>>

counters == <<getBabelCalls, engineCalls, unitReads>>

vars == <<babelVersion, babelOptions, unitFiles, babel, cacheDir, configDigest,
          hashedUnits, call, ret, wbs, rootMode, dirs, files, diskFull, console,
          getBabelCalls, engineCalls, unitReads, nCalls, nExternal>>

\* name: the advisory filename the call was given
IdleCall ==
  [pc |-> "idle", src |-> Null, name |-> "", cacheFilename |-> Null,
   output |-> <<>>, doneAtCheck |-> {}]

\* op: the method called; kind: "value" or "throw"; at: the place the call
\* ended at; engine: the calls of babel.transform it made; reads: the
\* logic-unit reads it made; doneAtCheck: the write-backs that had
\* completed when it looked the entry up; name: the advisory filename it
\* was given; errorFile: the filename the thrown error value carries
NoRet ==
  [op |-> "none", kind |-> "none", at |-> "none", src |-> Null, value |-> <<>>,
   digest |-> Null, error |-> "", engine |-> 0, reads |-> 0,
   verdict |-> FALSE, name |-> "", errorFile |-> "", doneAtCheck |-> {}]

\* no directory, no file
EmptyMap == [x \in {} |-> x]

Init ==
  /\ babelVersion \in [Procs -> Versions]
  /\ babelVersion["p1"] = <<"5">>
  /\ babelOptions = [p \in Procs |-> BabelOptionsJson]
  /\ unitFiles = InstalledUnits
  /\ babel = [p \in Procs |-> "null"]
  /\ cacheDir = [p \in Procs |-> Null]
  /\ configDigest = [p \in Procs |-> Null]
  /\ hashedUnits = [p \in Procs |-> <<>>]
  /\ call = [p \in Procs |-> IdleCall]
  /\ ret = [p \in Procs |-> NoRet]
  /\ wbs = <<>>
  /\ rootMode = "rwx"
  /\ dirs = EmptyMap
  /\ files = EmptyMap
  /\ diskFull = FALSE
  /\ console = {}
  /\ getBabelCalls = [p \in Procs |-> 0]
  /\ engineCalls = [p \in Procs |-> 0]
  /\ unitReads = [p \in Procs |-> 0]
  /\ nCalls = 0
  /\ nExternal = 0

(***************************************************************************)
(* The filesystem's answers.                                               *)
(***************************************************************************)
\* f without the key k
Without(f, k) == [x \in DOMAIN f \ {k} |-> f[x]]

\* f with k bound to v
With(f, k, v) == [x \in DOMAIN f \cup {k} |-> IF x = k THEN v ELSE f[x]]

RegularFile(bytes) == [kind |-> "file", readable |-> TRUE, data |-> bytes]

\* fs.existsSync(path): stat succeeded; any error is answered false
ExistsSync(path) ==
  /\ path \in DOMAIN files
  /\ dirs[PathDirname(path)] # "---"

\* fs.readFileSync(path, 'utf8'): "ok" or the error thrown
ReadFileError(path) ==
  CASE path \notin DOMAIN files -> "ENOENT"
    [] dirs[PathDirname(path)] = "---" -> "EACCES"
    [] files[path].kind = "dir" -> "EISDIR"
    [] ~files[path].readable -> "EACCES"
    [] OTHER -> "ok"

\* the mkdir system call that mkdirp makes for basedir
MkdirError(dir) ==
  CASE dir \in DOMAIN dirs -> "EEXIST"
    [] rootMode # "rwx" -> "EACCES"
    [] OTHER -> "ok"

\* a plain mkdir in place of mkdirp: an existing directory is an error
MkdirpStrict(dir) == MkdirError(dir)

\* mkdirp(basedir): as mkdir -p, an existing directory is no error
MkdirpError(dir) ==
  IF MkdirError(dir) = "EEXIST" THEN "ok" ELSE MkdirError(dir)

\* fs.writeFile's open of the temp file for writing
OpenError(path) ==
  CASE PathDirname(path) \notin DOMAIN dirs -> "ENOENT"
    [] dirs[PathDirname(path)] # "rwx" -> "EACCES"
    [] OTHER -> "ok"

\* fs.rename(from, to)
RenameError(from, to) ==
  CASE from \notin DOMAIN files -> "ENOENT"
    [] dirs[PathDirname(to)] # "rwx" -> "EACCES"
    [] to \in DOMAIN files /\ files[to].kind = "dir" -> "EISDIR"
    [] OTHER -> "ok"

\* fs.unlink(path)
UnlinkError(path) ==
  CASE path \notin DOMAIN files -> "ENOENT"
    [] dirs[PathDirname(path)] # "rwx" -> "EACCES"
    [] OTHER -> "ok"

(***************************************************************************)
(* NodeTranspiler.getConfigDigest (lines 357-379).                         *)
(***************************************************************************)
UnitsOk(p) == \A i \in UnitIds : unitFiles[i].exists

\* the first logic unit whose readFileSync throws
FirstBadUnit(p) ==
  CHOOSE i \in UnitIds :
    /\ ~unitFiles[i].exists
    /\ \A j \in 1..(i - 1) : unitFiles[j].exists

\* the digest of the configuration as it is on disk now
FreshDigest(p) ==
  ConfigDigestOf(babelVersion[p], babelOptions[p],
                 [i \in UnitIds |-> unitFiles[i].data])

\* the digest computed anew by every call
NeverMemoized(p) == FALSE

\* the hash is computed only while this._configDigest is unset
DigestMemoized(p) == configDigest[p] # Null

\* a logic unit that cannot be read is left out of the hash
UnreadableUnitSkipped(p) == FALSE

\* getConfigDigest throws: a logic unit cannot be read
DigestThrows(p) == ~DigestMemoized(p) /\ ~UnitsOk(p)

\* what getConfigDigest returns, and leaves in this._configDigest
DigestAfter(p) == IF DigestMemoized(p) THEN configDigest[p] ELSE FreshDigest(p)

\* the logic-unit bytes that went into this._configDigest
HashedAfter(p) ==
  IF DigestMemoized(p) THEN hashedUnits[p]
  ELSE [i \in UnitIds |-> unitFiles[i].data]

\* the logic-unit reads one call of getConfigDigest makes
DigestReads(p) ==
  IF DigestMemoized(p) THEN 0
  ELSE IF UnitsOk(p) THEN Len(UnitNames) ELSE FirstBadUnit(p)

Thrown(op, at, src, code) ==
  [NoRet EXCEPT !.op = op, !.kind = "throw", !.at = at, !.src = src,
                !.error = code]

Returned(op, at, src, value) ==
  [NoRet EXCEPT !.op = op, !.kind = "value", !.at = at, !.src = src,
                !.value = value]

\* a caller asks for the fingerprint
GetConfigDigest(p) ==
  /\ call[p].pc = "idle"
  /\ nCalls < MaxCalls
  /\ nCalls' = nCalls + 1
  /\ unitReads' = [unitReads EXCEPT ![p] = @ + DigestReads(p)]
  /\ IF DigestThrows(p)
     THEN /\ ret' = [ret EXCEPT ![p] =
                       [Thrown("getConfigDigest", "getConfigDigest", Null, "ENOENT")
                          EXCEPT !.reads = DigestReads(p)]]
          /\ UNCHANGED <<configDigest, hashedUnits>>
     ELSE /\ configDigest' = [configDigest EXCEPT ![p] = DigestAfter(p)]
          /\ hashedUnits' = [hashedUnits EXCEPT ![p] = HashedAfter(p)]
          /\ ret' = [ret EXCEPT ![p] =
                       [NoRet EXCEPT !.op = "getConfigDigest", !.kind = "value",
                                     !.at = "getConfigDigest",
                                     !.reads = DigestReads(p),
                                     !.digest = DigestAfter(p)]]
  /\ UNCHANGED <<config, unitFiles, babel, cacheDir, call, wbs, fs, console,
                 getBabelCalls, engineCalls, nExternal>>

(***************************************************************************)
(* NodeTranspiler._getCacheFilename (lines 408-425).                       *)
(***************************************************************************)
CacheDirMemoized(p) == cacheDir[p] # Null

\* _getCacheFilename throws: it needs the digest and the digest throws
FilenameThrows(p) == ~CacheDirMemoized(p) /\ DigestThrows(p)

CacheDirAfter(p) ==
  IF CacheDirMemoized(p) THEN cacheDir[p] ELSE CacheDirOf(DigestAfter(p))

GetCacheFilename(p, src) == CacheFilenameOf(CacheDirAfter(p), src)

\* the logic-unit reads one call of _getCacheFilename makes
FilenameReads(p) == IF CacheDirMemoized(p) THEN 0 ELSE DigestReads(p)

(***************************************************************************)
(* NodeTranspiler.transform (lines 381-393).                               *)
(***************************************************************************)
\* this._getBabel() is called while this._babel is unset
\* getBabel called by every transform
AcquiresBabelAlways(p) == TRUE

\* line 382: getBabel is called only while this._babel is unset
AcquiresBabel(p) == babel[p] = "null"

TransformThrows(src) == Rejects(InputOf(src))

\* lines 387-391: the filename the error thrown by transform names.  The
\* options handed to babel hold no filename and `throw err` rethrows the
\* engine's error as it is: none.
ErrorFileOf(filename) == ""

TransformOutput(p, src) == OutputOf(babelVersion[p], src)

\* the effects of one call of transform on the instance and the console
TransformEffects(p, src, filename) ==
  /\ babel' = [babel EXCEPT ![p] = "babel"]
  /\ getBabelCalls' =
       [getBabelCalls EXCEPT ![p] = IF AcquiresBabel(p) THEN @ + 1 ELSE @]
  /\ engineCalls' = [engineCalls EXCEPT ![p] = @ + 1]
  /\ console' =
       IF TransformThrows(src)
       THEN console \cup {[proc |-> p, line |-> "Error transpiling", arg |-> filename]}
       ELSE console

\* a caller transforms a source without the cache
Transform(p, src, filename) ==
  /\ call[p].pc = "idle"
  /\ nCalls < MaxCalls
  /\ nCalls' = nCalls + 1
  /\ TransformEffects(p, src, filename)
  /\ ret' = [ret EXCEPT ![p] =
               IF TransformThrows(src)
               THEN [Thrown("transform", "transform", src, "SyntaxError")
                       EXCEPT !.engine = 1, !.name = filename,
                              !.errorFile = ErrorFileOf(filename)]
               ELSE [Returned("transform", "return", src, TransformOutput(p, src))
                       EXCEPT !.engine = 1, !.name = filename]]
  /\ UNCHANGED <<config, unitFiles, cacheDir, configDigest, hashedUnits, call,
                 wbs, fs, unitReads, nExternal>>

(***************************************************************************)
(* cacheWriteAsync (lines 430-461): what the call itself does.  The rest   *)
(* runs later, one filesystem operation at a time (see below).             *)
(***************************************************************************)
\* the write-back that cacheWriteAsync(filename, src) starts; mkdirp's
\* first system call is queued at once
\* (source: the source the output was computed from, and steps: the
\* filesystem operations issued so far, both kept for the record)
NewWriteBack(p, source, filename, src, uuid) ==
  [proc |-> p, source |-> source, filename |-> filename,
   tmpName |-> TmpNameOf(filename, uuid), src |-> src, pc |-> "mkdirp",
   mkdirErr |-> "", written |-> 0, logged |-> 0, steps |-> <<>>]

\* a write-back joined to the pending write-back of the same entry
CacheWriteCoalesced(p, source, filename, src) ==
  wbs' = IF \E i \in 1..Len(wbs) :
               wbs[i].filename = filename /\ wbs[i].pc \notin {"done", "failed"}
         THEN wbs
         ELSE Append(wbs, NewWriteBack(p, source, filename, src, Len(wbs) + 1))

CacheWriteAsync(p, source, filename, src) ==
  wbs' = Append(wbs, NewWriteBack(p, source, filename, src, Len(wbs) + 1))

\* mkdirp.sync(basedir) in place of mkdirp(basedir, callback)
CacheWriteThrowsSync(filename) == MkdirpError(PathDirname(filename)) # "ok"

\* Does the call of cacheWriteAsync itself throw?  It joins two paths and
\* queues mkdirp, whose error goes to the callback (line 437): never.
CacheWriteThrows(filename) == FALSE

\* the write-backs whose rename has succeeded
DoneWriteBacks == {i \in 1..Len(wbs) : wbs[i].pc = "done"}

(***************************************************************************)
(* NodeTranspiler.transformWithCache (lines 395-406).  The process runs    *)
(* it without yielding; the other processes and the environment act        *)
(* between its system calls.                                               *)
(***************************************************************************)
\* line 398: the branch taken on the answer of existsSync
TakesHitBranch(path) == ExistsSync(path)

\* the write-back started whatever transform did
SchedulesWriteBackAlways(p, src) == TRUE

\* the source hashed together with the advisory filename
CacheKeyWithName(src, filename) == [src EXCEPT !.data = @ \o <<filename>>]

\* line 396: of its two arguments transformWithCache hands the source alone
\* to _getCacheFilename
CacheKey(src, filename) == src

\* line 402: is a write-back scheduled after a transform that returned
SchedulesWriteBack(p, src) == ~TransformThrows(src)

\* _getCacheFilename threw: the call ends before any lookup
TwcFingerprintFails(p, src, filename) ==
  /\ FilenameThrows(p)
  /\ ret' = [ret EXCEPT ![p] =
               [Thrown("transformWithCache", "getConfigDigest", src, "ENOENT")
                  EXCEPT !.name = filename]]
  /\ UNCHANGED <<babel, call, wbs, console, getBabelCalls, engineCalls>>

\* the source transformed before the lookup, whatever the lookup finds
TwcFoundEager(p, src, filename) ==
  /\ ~FilenameThrows(p)
  /\ TakesHitBranch(GetCacheFilename(p, CacheKey(src, filename)))
  /\ ~TransformThrows(src)
  /\ call' = [call EXCEPT ![p] =
                [IdleCall EXCEPT !.pc = "read", !.src = src, !.name = filename,
                                 !.cacheFilename =
                                   GetCacheFilename(p, CacheKey(src, filename)),
                                 !.doneAtCheck = DoneWriteBacks]]
  /\ TransformEffects(p, src, filename)
  /\ UNCHANGED <<ret, wbs>>

\* the entry exists: readFileSync comes next
TwcFound(p, src, filename) ==
  /\ ~FilenameThrows(p)
  /\ TakesHitBranch(GetCacheFilename(p, CacheKey(src, filename)))
  /\ call' = [call EXCEPT ![p] =
                [IdleCall EXCEPT !.pc = "read", !.src = src, !.name = filename,
                                 !.cacheFilename =
                                   GetCacheFilename(p, CacheKey(src, filename)),
                                 !.doneAtCheck = DoneWriteBacks]]
  /\ UNCHANGED <<babel, ret, wbs, console, getBabelCalls, engineCalls>>

\* no entry, and the engine rejects the source: transform's error leaves
\* transformWithCache
TwcMissThrows(p, src, filename) ==
  /\ ~FilenameThrows(p)
  /\ ~TakesHitBranch(GetCacheFilename(p, CacheKey(src, filename)))
  /\ ~SchedulesWriteBack(p, src)
  /\ TransformEffects(p, src, filename)
  /\ ret' = [ret EXCEPT ![p] =
               [Thrown("transformWithCache", "transform", src, "SyntaxError")
                  EXCEPT !.engine = 1, !.name = filename,
                         !.errorFile = ErrorFileOf(filename),
                         !.doneAtCheck = DoneWriteBacks]]
  /\ UNCHANGED <<call, wbs>>

\* no entry: the source is transformed and the write-back is started
TwcMiss(p, src, filename) ==
  /\ ~FilenameThrows(p)
  /\ ~TakesHitBranch(GetCacheFilename(p, CacheKey(src, filename)))
  /\ SchedulesWriteBack(p, src)
  /\ TransformEffects(p, src, filename)
  /\ IF CacheWriteThrows(GetCacheFilename(p, CacheKey(src, filename)))
     THEN /\ ret' = [ret EXCEPT ![p] =
                       [Thrown("transformWithCache", "cacheWriteAsync", src,
                               MkdirpError(PathDirname(
                                 GetCacheFilename(p, CacheKey(src, filename)))))
                          EXCEPT !.engine = 1, !.name = filename,
                                 !.doneAtCheck = DoneWriteBacks]]
          /\ UNCHANGED <<call, wbs>>
     ELSE /\ CacheWriteAsync(p, src, GetCacheFilename(p, CacheKey(src, filename)),
                             TransformOutput(p, src))
          /\ call' = [call EXCEPT ![p] =
                        [IdleCall EXCEPT !.pc = "return", !.src = src,
                                         !.name = filename,
                                         !.cacheFilename =
                                           GetCacheFilename(p, CacheKey(src, filename)),
                                         !.output = TransformOutput(p, src),
                                         !.doneAtCheck = DoneWriteBacks]]
          /\ UNCHANGED ret

\* transformWithCache(src, filename) up to the answer of existsSync
TwcStart(p, src, filename) ==
  /\ call[p].pc = "idle"
  /\ nCalls < MaxCalls
  /\ nCalls' = nCalls + 1
  /\ unitReads' = [unitReads EXCEPT ![p] = @ + FilenameReads(p)]
  /\ IF FilenameThrows(p)
     THEN UNCHANGED <<cacheDir, configDigest, hashedUnits>>
     ELSE /\ cacheDir' = [cacheDir EXCEPT ![p] = CacheDirAfter(p)]
          /\ configDigest' =
               [configDigest EXCEPT ![p] =
                  IF CacheDirMemoized(p) THEN @ ELSE DigestAfter(p)]
          /\ hashedUnits' =
               [hashedUnits EXCEPT ![p] =
                  IF CacheDirMemoized(p) THEN @ ELSE HashedAfter(p)]
  /\ \/ TwcFingerprintFails(p, src, filename)
     \/ TwcFound(p, src, filename)
     \/ TwcMissThrows(p, src, filename)
     \/ TwcMiss(p, src, filename)
  /\ UNCHANGED <<config, unitFiles, fs, nExternal>>

\* line 399: what a hit hands back for the bytes it read
HitValue(bytes) == Utf8Decode(bytes)

\* line 399: readFileSync returns the entry, or throws
TwcRead(p) ==
  /\ call[p].pc = "read"
  /\ LET path == call[p].cacheFilename
         err == ReadFileError(path)
     IN  ret' = [ret EXCEPT ![p] =
                   IF err = "ok"
                   THEN [Returned("transformWithCache", "readFileSync",
                                  call[p].src, HitValue(files[path].data))
                           EXCEPT !.name = call[p].name,
                                  !.doneAtCheck = call[p].doneAtCheck]
                   ELSE [Thrown("transformWithCache", "readFileSync",
                                call[p].src, err)
                           EXCEPT !.name = call[p].name,
                                  !.doneAtCheck = call[p].doneAtCheck]]
  /\ call' = [call EXCEPT ![p] = IdleCall]
  /\ UNCHANGED <<config, unitFiles, instance, wbs, fs, console, counters,
                 nCalls, nExternal>>

\* line 405: the miss hands back the engine's output
TwcReturn(p) ==
  /\ call[p].pc = "return"
  /\ ret' = [ret EXCEPT ![p] =
               [Returned("transformWithCache", "return", call[p].src,
                         call[p].output)
                  EXCEPT !.engine = 1, !.name = call[p].name,
                         !.doneAtCheck = call[p].doneAtCheck]]
  /\ call' = [call EXCEPT ![p] = IdleCall]
  /\ UNCHANGED <<config, unitFiles, instance, wbs, fs, console, counters,
                 nCalls, nExternal>>

(***************************************************************************)
(* cacheWriteAsync (lines 437-460): the asynchronous steps.  mkdirp's      *)
(* system call runs on the thread pool as soon as it is queued; every      *)
(* later operation is issued by the callback of the one before it, which   *)
(* runs only when the process is not inside a synchronous call.            *)
(***************************************************************************)
\* callbacks run in the middle of a synchronous call
EventLoopAlwaysFree(p) == TRUE

\* a callback of process p runs only when p is not inside a call
EventLoopFree(p) == call[p].pc = "idle"

Logged(p, code) ==
  console \cup {[proc |-> p, line |-> "nuclide-node-transpiler:", arg |-> code]}

\* fs.writeFile(filename, src): the entry written in place
WriteTargetInPlace(wb) == wb.filename

\* line 446: the file fs.writeFile writes
WriteTarget(wb) == wb.tmpName

\* the rename started before the write has ended
WriteCompleteEarly(wb, n) == TRUE

\* fs.writeFile never calls back
WriteNeverCompletes(wb, n) == FALSE

\* line 446: fs.writeFile calls back once every byte is written
WriteComplete(wb, n) == wb.written + n = Len(Utf8Encode(wb.src))

\* line 451: fs.rename(tmpName, filename)
RenameFrom(wb) == wb.tmpName

RenameTo(wb) == wb.filename

\* line 437: mkdirp(basedir) creates the namespace directory if it is absent
MkdirpExec(i) ==
  /\ wbs[i].pc = "mkdirp"
  /\ LET dir == PathDirname(wbs[i].filename)
         err == MkdirpError(dir)
     IN  /\ dirs' = IF err = "ok" /\ dir \notin DOMAIN dirs
                    THEN With(dirs, dir, "rwx") ELSE dirs
         /\ wbs' = [wbs EXCEPT ![i].pc = "writeFile", ![i].mkdirErr = err,
                                ![i].steps = Append(@, "mkdirp")]
  /\ UNCHANGED <<config, unitFiles, instance, call, ret, rootMode, files,
                 diskFull, console, counters, nCalls, nExternal>>

\* fs.writeFile issued whatever mkdirp reported
MkdirErrorIgnored(wb) == FALSE

\* line 438: if (mkdirErr)
MkdirFailed(wb) == wb.mkdirErr # "ok"

\* lines 437-446: mkdirp's callback; on success fs.writeFile opens the
\* temp file, creating it empty
WriteOpen(i) ==
  /\ wbs[i].pc = "writeFile"
  /\ EventLoopFree(wbs[i].proc)
  /\ LET wb == wbs[i]
         err == IF MkdirFailed(wb) THEN wb.mkdirErr ELSE OpenError(WriteTarget(wb))
         issued == IF MkdirFailed(wb) THEN wb.steps ELSE Append(wb.steps, "writeFile")
     IN  IF err = "ok"
         THEN /\ files' = With(files, WriteTarget(wb), RegularFile(<<>>))
              /\ wbs' = [wbs EXCEPT ![i].pc = "writing", ![i].steps = issued]
              /\ UNCHANGED console
         ELSE /\ console' = Logged(wb.proc, err)
              /\ wbs' = [wbs EXCEPT ![i].pc = "failed", ![i].logged = @ + 1,
                                     ![i].steps = issued]
              /\ UNCHANGED files
  /\ UNCHANGED <<config, unitFiles, instance, call, ret, rootMode, dirs,
                 diskFull, counters, nCalls, nExternal>>

\* line 446: fs.writeFile writes the next n bytes; a deleted temp file
\* is still written through its descriptor, and seen by no one
WriteChunk(i, n) ==
  /\ wbs[i].pc = "writing"
  /\ EventLoopFree(wbs[i].proc)
  /\ LET wb == wbs[i]
         bytes == Utf8Encode(wb.src)
         target == WriteTarget(wb)
     IN  /\ n \in 1..(Len(bytes) - wb.written)
         /\ IF diskFull
            THEN /\ console' = Logged(wb.proc, "ENOSPC")
                 /\ wbs' = [wbs EXCEPT ![i].pc = "failed", ![i].logged = @ + 1]
                 /\ UNCHANGED files
            ELSE /\ files' =
                      IF target \in DOMAIN files
                      THEN [files EXCEPT ![target].data =
                              @ \o SubSeq(bytes, wb.written + 1, wb.written + n)]
                      ELSE files
                 /\ wbs' = [wbs EXCEPT
                              ![i].written = @ + n,
                              ![i].pc = IF WriteComplete(wb, n)
                                        THEN "rename" ELSE "writing"]
                 /\ UNCHANGED console
  /\ UNCHANGED <<config, unitFiles, instance, call, ret, rootMode, dirs,
                 diskFull, counters, nCalls, nExternal>>

\* lines 446-457: fs.writeFile's callback renames the temp file to the
\* entry; rename replaces the entry in one step
Rename(i) ==
  /\ wbs[i].pc = "rename"
  /\ EventLoopFree(wbs[i].proc)
  /\ LET wb == wbs[i]
         err == RenameError(RenameFrom(wb), RenameTo(wb))
     IN  IF err = "ok"
         THEN /\ files' = With(Without(files, RenameFrom(wb)), RenameTo(wb),
                               files[RenameFrom(wb)])
              /\ wbs' = [wbs EXCEPT ![i].pc = "done",
                                     ![i].steps = Append(@, "rename")]
              /\ UNCHANGED console
         ELSE /\ console' = Logged(wb.proc, err)
              /\ wbs' = [wbs EXCEPT ![i].pc = "unlink", ![i].logged = @ + 1,
                                     ![i].steps = Append(@, "rename")]
              /\ UNCHANGED files
  /\ UNCHANGED <<config, unitFiles, instance, call, ret, rootMode, dirs,
                 diskFull, counters, nCalls, nExternal>>

\* fs.unlink(filename): the entry removed after a failed rename
UnlinkTargetFinal(wb) == wb.filename

\* line 455: the file fs.unlink removes
UnlinkTarget(wb) == wb.tmpName

\* fs.unlink issued again until it succeeds
UnlinkRetried(err) == IF err = "ok" THEN "failed" ELSE "unlink"

\* line 455: the callback of fs.unlink takes no notice of the error: the
\* write-back has ended
AfterUnlink(err) == "failed"

\* line 455: fs.unlink(tmpName, () => {}): its error is dropped
Unlink(i) ==
  /\ wbs[i].pc = "unlink"
  /\ LET wb == wbs[i]
     IN  /\ files' = IF UnlinkError(UnlinkTarget(wb)) = "ok"
                     THEN Without(files, UnlinkTarget(wb)) ELSE files
         /\ wbs' = [wbs EXCEPT ![i].pc = AfterUnlink(UnlinkError(UnlinkTarget(wb))),
                                ![i].steps = Append(@, "unlink")]
  /\ UNCHANGED <<config, unitFiles, instance, call, ret, rootMode, dirs,
                 diskFull, console, counters, nCalls, nExternal>>

(***************************************************************************)
(* The environment: other programs acting on the temp directory and on     *)
(* the installation.                                                       *)
(***************************************************************************)
External ==
  /\ nExternal < MaxExternal
  /\ nExternal' = nExternal + 1

IsEntry(path) == "ext" \in DOMAIN path.base

\* a file of the cache is deleted
ExtUnlink(path) ==
  /\ External
  /\ path \in DOMAIN files
  /\ files' = Without(files, path)
  /\ UNCHANGED <<config, unitFiles, instance, call, ret, wbs, rootMode, dirs,
                 diskFull, console, counters, nCalls>>

\* a namespace directory is deleted with all it holds
ExtRmdir(dir) ==
  /\ External
  /\ dir \in DOMAIN dirs
  /\ dirs' = Without(dirs, dir)
  /\ files' = [path \in {q \in DOMAIN files : PathDirname(q) # dir} |-> files[path]]
  /\ UNCHANGED <<config, unitFiles, instance, call, ret, wbs, rootMode,
                 diskFull, console, counters, nCalls>>

\* an entry loses its read permission
ExtChmodFile(path) ==
  /\ External
  /\ path \in DOMAIN files
  /\ IsEntry(path)
  /\ files[path].readable
  /\ files' = [files EXCEPT ![path].readable = FALSE]
  /\ UNCHANGED <<config, unitFiles, instance, call, ret, wbs, rootMode, dirs,
                 diskFull, console, counters, nCalls>>

\* an entry is replaced by a directory of the same name
ExtReplaceByDir(path) ==
  /\ External
  /\ path \in DOMAIN files
  /\ IsEntry(path)
  /\ files[path].kind = "file"
  /\ files' = [files EXCEPT ![path] = [kind |-> "dir", readable |-> TRUE, data |-> <<>>]]
  /\ UNCHANGED <<config, unitFiles, instance, call, ret, wbs, rootMode, dirs,
                 diskFull, console, counters, nCalls>>

\* a namespace directory becomes read-only, or closed altogether
ExtChmodDir(dir, mode) ==
  /\ External
  /\ dir \in DOMAIN dirs
  /\ dirs[dir] = "rwx"
  /\ dirs' = [dirs EXCEPT ![dir] = mode]
  /\ UNCHANGED <<config, unitFiles, instance, call, ret, wbs, rootMode, files,
                 diskFull, console, counters, nCalls>>

\* the cache root becomes read-only
ExtChmodRoot ==
  /\ External
  /\ rootMode = "rwx"
  /\ rootMode' = "r-x"
  /\ UNCHANGED <<config, unitFiles, instance, call, ret, wbs, dirs, files,
                 diskFull, console, counters, nCalls>>

\* the disk fills up
ExtDiskFull ==
  /\ External
  /\ ~diskFull
  /\ diskFull' = TRUE
  /\ UNCHANGED <<config, unitFiles, instance, call, ret, wbs, rootMode, dirs,
                 files, console, counters, nCalls>>

\* a logic unit is revised
ExtEditUnit(i) ==
  /\ External
  /\ unitFiles[i] = File(<<"t">>)
  /\ unitFiles' = [unitFiles EXCEPT ![i] = File(RevisedUnit)]
  /\ UNCHANGED <<config, instance, call, ret, wbs, fs, console, counters, nCalls>>

\* a logic unit is removed
ExtRemoveUnit(i) ==
  /\ External
  /\ unitFiles[i].exists
  /\ unitFiles' = [unitFiles EXCEPT ![i] = NoFile]
  /\ UNCHANGED <<config, instance, call, ret, wbs, fs, console, counters, nCalls>>

Next ==
  \/ \E p \in Procs : GetConfigDigest(p)
  \/ \E p \in Procs, src \in Sources, filename \in Filenames :
       Transform(p, src, filename)
  \/ \E p \in Procs, src \in Sources, filename \in Filenames :
       TwcStart(p, src, filename)
  \/ \E p \in Procs : TwcRead(p)
  \/ \E p \in Procs : TwcReturn(p)
  \/ \E i \in 1..Len(wbs) : MkdirpExec(i)
  \/ \E i \in 1..Len(wbs) : WriteOpen(i)
  \/ \E i \in 1..Len(wbs), n \in 1..4 : WriteChunk(i, n)
  \/ \E i \in 1..Len(wbs) : Rename(i)
  \/ \E i \in 1..Len(wbs) : Unlink(i)
  \/ \E path \in DOMAIN files : ExtUnlink(path)
  \/ \E path \in DOMAIN files : ExtChmodFile(path)
  \/ \E path \in DOMAIN files : ExtReplaceByDir(path)
  \/ \E dir \in DOMAIN dirs : ExtRmdir(dir)
  \/ \E dir \in DOMAIN dirs, mode \in {"r-x", "---"} : ExtChmodDir(dir, mode)
  \/ ExtChmodRoot
  \/ ExtDiskFull
  \/ \E i \in UnitIds : ExtEditUnit(i)
  \/ \E i \in UnitIds : ExtRemoveUnit(i)

Spec == Init /\ [][Next]_vars

(***************************************************************************)
(* Properties.                                                             *)
(***************************************************************************)
\* the bytes of a source, whichever way it is handed over
BytesOfSource(src) == IF src.isBuffer THEN src.data ELSE Utf8Encode(src.data)

\* the same bytes, and the same string whenever the string is well formed
\* (a file holds bytes: a code unit that is no character is stored as U+FFFD)
SameOutput(got, output) ==
  /\ Utf8Encode(got) = Utf8Encode(output)
  /\ WellFormed(output) => got = output

TwcValue(p) == ret[p].op = "transformWithCache" /\ ret[p].kind = "value"

EntryIsComplete ==
  \A path \in DOMAIN files :
    (IsEntry(path) /\ files[path].kind = "file") =>
      /\ \E i \in 1..Len(wbs) : wbs[i].filename = path /\ wbs[i].pc = "done"
      /\ \A i \in 1..Len(wbs) :
           wbs[i].filename = path => files[path].data = Utf8Encode(wbs[i].src)

\* two write-backs have renamed onto the same entry, one over the other
RenamedOverEntry ==
  \E i, j \in 1..Len(wbs) :
    /\ i # j
    /\ wbs[i].pc = "done" /\ wbs[j].pc = "done"
    /\ wbs[i].filename = wbs[j].filename
    /\ wbs[i].filename \in DOMAIN files

SameConfiguration(p, q) ==
  /\ babelVersion[p] = babelVersion[q]
  /\ babelOptions[p] = babelOptions[q]
  /\ hashedUnits[p] = hashedUnits[q]

\* C3: once the write-back of a miss has completed, and the environment
\* leaves the cache alone, a later transformWithCache on the same bytes, by
\* the same or another instance with the same configuration, returns the
\* bytes of the first call from the entry and does not call the engine.
RoundTrip ==
  nExternal = 0 =>
    \A q \in Procs : \A i \in ret[q].doneAtCheck :
      (/\ ret[q].op = "transformWithCache"
       /\ SameConfiguration(wbs[i].proc, q)
       /\ BytesOfSource(ret[q].src) = BytesOfSource(wbs[i].source))
      => /\ ret[q].kind = "value"
         /\ ret[q].at = "readFileSync"
         /\ ret[q].engine = 0
         /\ SameOutput(ret[q].value, wbs[i].src)

\* another process gets, from the entry, the output of a source that the
\* first process handed over as a buffer and it hands over as a string
RoundTripInFreshProcess ==
  \E q \in Procs : \E i \in ret[q].doneAtCheck :
    /\ nExternal = 0
    /\ wbs[i].proc # q
    /\ TwcValue(q) /\ ret[q].at = "readFileSync"
    /\ SameConfiguration(wbs[i].proc, q)
    /\ ret[q].src # wbs[i].source
    /\ BytesOfSource(ret[q].src) = BytesOfSource(wbs[i].source)

\* C4 (as claimed): a lookup that fails for another reason than the entry
\* being absent (unreadable entry, entry that is no regular file) is a
\* miss: the call never ends with that error.
LookupFailureIsMiss ==
  \A p \in Procs :
    (ret[p].op = "transformWithCache" /\ ret[p].at = "readFileSync"
       /\ ret[p].error # "ENOENT")
    => ret[p].kind = "value"

\* C5 (as claimed): the environment may delete entries and namespace
\* directories at any point, also between existsSync and readFileSync: no
\* transformWithCache call ends with the error of the entry being gone.
ExternalDeletionIsHarmless ==
  \A p \in Procs :
    (ret[p].op = "transformWithCache" /\ ret[p].at = "readFileSync")
    => ret[p].error # "ENOENT"

WriteBackLine(p) ==
  \E l \in console : l.proc = p /\ l.line = "nuclide-node-transpiler:"

RejectedSourceIsNeverCached ==
  /\ \A p \in Procs :
       (/\ ret[p].op \in {"transform", "transformWithCache"}
        /\ ret[p].at # "getConfigDigest"
        /\ TransformThrows(ret[p].src))
       => /\ ret[p].kind = "throw"
          /\ ret[p].at = "transform"
          /\ ret[p].error = "SyntaxError"
          /\ ret[p].engine = 1
  /\ \A s \in Sources :
       TransformThrows(s) =>
         /\ \A i \in 1..Len(wbs) : wbs[i].source # s
         /\ \A path \in DOMAIN files : path.base # EntryName(s)
  /\ \A path \in DOMAIN files :
       ~IsEntry(path) => \E i \in 1..Len(wbs) : wbs[i].tmpName = path

\* transformWithCache has thrown the engine's error for the second time in
\* a row: both calls reached the engine and nothing was scheduled
RejectedTwice ==
  \E p \in Procs :
    /\ ret[p].op = "transformWithCache"
    /\ ret[p].kind = "throw" /\ ret[p].at = "transform"
    /\ engineCalls[p] = 2
    /\ getBabelCalls[p] = 1
    /\ wbs = <<>>
    /\ \A l \in console : l.line = "Error transpiling"

\* the fingerprint, once computed, and the namespace derived from it stay
\* as they are, and no logic unit is read again
MemoKept(p) ==
  configDigest[p] # Null =>
    /\ configDigest'[p] = configDigest[p]
    /\ unitReads'[p] = unitReads[p]
    /\ cacheDir[p] # Null => cacheDir'[p] = cacheDir[p]

\* C9: getConfigDigest is deterministic in (engine version, options, logic
\* units) and memoized per instance: the value hashed at the first
\* successful call is what every later call returns, also after the logic
\* units changed on disk, and nothing is read or hashed again.
FingerprintIsMemoized ==
  /\ [](\A p \in Procs :
          /\ configDigest[p] # Null =>
               configDigest[p] =
                 ConfigDigestOf(babelVersion[p], babelOptions[p], hashedUnits[p])
          /\ (ret[p].op = "getConfigDigest" /\ ret[p].kind = "value") =>
               ret[p].digest = configDigest[p]
          /\ \A q \in Procs :
               (configDigest[p] # Null /\ configDigest[q] # Null
                  /\ SameConfiguration(p, q))
               => configDigest[p] = configDigest[q])
  /\ [][\A p \in Procs : MemoKept(p)]_vars

\* getConfigDigest has answered from the memo, without a read, the digest
\* of logic units that are no longer those on disk
MemoServedAfterEdit ==
  \E p \in Procs :
    /\ ret[p].op = "getConfigDigest" /\ ret[p].kind = "value"
    /\ ret[p].reads = 0
    /\ UnitsOk(p) /\ ret[p].digest # FreshDigest(p)

\* the instance works under the namespace of its complete fingerprint only
NamespaceIsFingerprinted ==
  /\ \A p \in Procs :
       /\ cacheDir[p] # Null =>
            /\ configDigest[p] # Null
            /\ cacheDir[p] = CacheDirOf(configDigest[p])
       /\ configDigest[p] # Null => Len(hashedUnits[p]) = Len(UnitNames)
       /\ call[p].pc # "idle" => PathDirname(call[p].cacheFilename) = cacheDir[p]
  /\ \A i \in 1..Len(wbs) :
       PathDirname(wbs[i].filename) = cacheDir[wbs[i].proc]

\* a call of p has tried to read the logic units while one is unreadable:
\* it throws at getConfigDigest and leaves nothing behind
FailedFingerprintStep(p) ==
  (unitReads'[p] # unitReads[p] /\ ~UnitsOk(p)) =>
    /\ ret'[p].kind = "throw" /\ ret'[p].at = "getConfigDigest"
    /\ ret'[p].engine = 0
    /\ configDigest'[p] = Null /\ cacheDir'[p] = Null
    /\ call'[p].pc = "idle"
    /\ UNCHANGED <<babel, wbs, fs, console, getBabelCalls, engineCalls>>

\* C10: a logic unit that cannot be read while the fingerprint is computed
\* makes the call throw; no fingerprint and no namespace is memoized, the
\* engine is not invoked, no entry is looked up and no write-back starts.
FingerprintFailureIsFatal ==
  /\ []NamespaceIsFingerprinted
  /\ [][\A p \in Procs : FailedFingerprintStep(p)]_vars

\* transformWithCache has thrown out of getConfigDigest after reading the
\* logic units that precede the missing one
TwcFailedAtFingerprint ==
  \E p \in Procs :
    /\ ret[p].op = "transformWithCache"
    /\ ret[p].kind = "throw" /\ ret[p].at = "getConfigDigest"
    /\ unitReads[p] > 0
    /\ configDigest[p] = Null /\ cacheDir[p] = Null

(***************************************************************************)
(* getConfigDigest over configurations: engine versions, option texts of   *)
(* installations whose plugin paths differ, and logic units of any bytes,  *)
(* reinstalled between the calls of two processes.                         *)
(***************************************************************************)
\* JSON.stringify(BABEL_OPTIONS) where the plugins resolve to other paths
OptionTexts == {BabelOptionsJson, <<"{", "s", "s", "}">>}

\* contents a logic unit may have; a source file may hold a NUL byte
UnitContents == {<<"t">>, <<"t", NUL>>, <<NUL, "t">>}

InitDigest ==
  /\ babelVersion \in [Procs -> Versions]
  /\ babelVersion["p1"] = <<"5">>
  /\ babelOptions \in [Procs -> OptionTexts]
  /\ unitFiles \in [UnitIds -> {File(c) : c \in UnitContents}]
  /\ babel = [p \in Procs |-> "null"]
  /\ cacheDir = [p \in Procs |-> Null]
  /\ configDigest = [p \in Procs |-> Null]
  /\ hashedUnits = [p \in Procs |-> <<>>]
  /\ call = [p \in Procs |-> IdleCall]
  /\ ret = [p \in Procs |-> NoRet]
  /\ wbs = <<>>
  /\ rootMode = "rwx"
  /\ dirs = EmptyMap
  /\ files = EmptyMap
  /\ diskFull = FALSE
  /\ console = {}
  /\ getBabelCalls = [p \in Procs |-> 0]
  /\ engineCalls = [p \in Procs |-> 0]
  /\ unitReads = [p \in Procs |-> 0]
  /\ nCalls = 0
  /\ nExternal = 0

\* another revision of the package is installed: all logic units change
ReinstallUnits(units) ==
  /\ External
  /\ unitFiles' = [i \in UnitIds |-> File(units[i])]
  /\ unitFiles' # unitFiles
  /\ UNCHANGED <<config, instance, call, ret, wbs, fs, console, counters, nCalls>>

NextDigest ==
  \/ \E p \in Procs : GetConfigDigest(p)
  \/ \E units \in [UnitIds -> UnitContents] : ReinstallUnits(units)

SpecDigest == InitDigest /\ [][NextDigest]_vars

RECURSIVE NulJoined(_)
NulJoined(fields) ==
  IF fields = <<>> THEN <<>>
  ELSE Head(fields) \o <<NUL>> \o NulJoined(Tail(fields))

\* the encoding with a NUL after every field
NulSeparated(version, options, units) ==
  NulJoined(<<Utf8Encode(ToolId), Utf8Encode(version), Utf8Encode(options)>>
              \o units)

\* a NUL separates every adjacent pair of fields of the hashed stream
EveryFieldSeparated ==
  \A p \in Procs :
    configDigest[p] # Null =>
      configDigest[p].sha1 =
        NulSeparated(babelVersion[p], babelOptions[p], hashedUnits[p])

\* configurations that differ have different fingerprints
DistinctConfigurationsDiffer ==
  \A p, q \in Procs :
    (configDigest[p] # Null /\ configDigest[q] # Null
       /\ ~SameConfiguration(p, q))
    => configDigest[p] # configDigest[q]

\* C8 (as claimed): the stream getConfigDigest hashes has a NUL between
\* every adjacent pair of fields, the options and the first logic unit
\* included, and is an injective encoding: configurations that differ in a
\* field or in a byte of a logic unit never get the same fingerprint.
FingerprintIsInjective ==
  /\ DistinctConfigurationsDiffer
  /\ EveryFieldSeparated

(***************************************************************************)
(* NodeTranspiler.shouldCompile (lines 291-292, 337-340), applied to       *)
(* strings and Buffers that hold a directive, a damaged directive or none, *)
(* at offset 0 or later, followed by more text or not.                     *)
(***************************************************************************)
\* PREFIXES: 'use babel', "use babel", /* @flow */, /** @babel */
PREFIXES ==
  << <<"'", "u", "s", "e", " ", "b", "a", "b", "e", "l", "'">>,
     <<"\"", "u", "s", "e", " ", "b", "a", "b", "e", "l", "\"">>,
     <<"/", "*", " ", "@", "f", "l", "o", "w", " ", "*", "/">>,
     <<"/", "*", "*", " ", "@", "b", "a", "b", "e", "l", " ", "*", "/">> >>

PrefixLengths == {Len(PREFIXES[i]) : i \in 1..Len(PREFIXES)}

\* the window of the shortest directive
ShortestPrefixLength ==
  CHOOSE n \in PrefixLengths : \A m \in PrefixLengths : n <= m

\* PREFIX_LENGTH: Math.max over the lengths of PREFIXES
PREFIX_LENGTH ==
  CHOOSE n \in PrefixLengths : \A m \in PrefixLengths : n >= m

\* bufferOrString.slice(0, n): bytes of a Buffer, code units of a string
Slice(src, n) ==
  [src EXCEPT !.data = SubSeq(src.data, 1, IF n < Len(@) THEN n ELSE Len(@))]

StartsWith(str, prefix) == IsPrefix(prefix, str)

\* line 338: the window shouldCompile looks at
WindowOf(src) == InputOf(Slice(src, PREFIX_LENGTH))

\* what shouldCompile returns
ShouldCompileOf(src) ==
  \E i \in 1..Len(PREFIXES) : StartsWith(WindowOf(src), PREFIXES[i])

\* a directive whose last unit is missing, and one with unlike quotes
DamagedDirectives ==
  {SubSeq(PREFIXES[i], 1, Len(PREFIXES[i]) - 1) : i \in 1..Len(PREFIXES)}
    \cup {<<"'", "u", "s", "e", " ", "b", "a", "b", "e", "l", "\"">>}

ProbeTexts ==
  {pad \o body \o rest :
     pad \in {<<>>, <<" ">>, <<"/">>},
     body \in Range(PREFIXES) \cup DamagedDirectives \cup {<<>>},
     rest \in {<<>>, <<";">>, <<"x", EAcute, "'">>}}

\* the inputs shouldCompile is applied to: each text as a string and as
\* the Buffer of its UTF-8 bytes
Probes == {Str(t) : t \in ProbeTexts} \cup {Buf(Utf8Encode(t)) : t \in ProbeTexts}

\* a caller applies the static method to an input; the method keeps no
\* state, so one application by each caller is explored
ShouldCompile(p, src) ==
  /\ ret[p] = NoRet
  /\ ret' = [ret EXCEPT ![p] =
               [NoRet EXCEPT !.op = "shouldCompile", !.kind = "value",
                             !.at = "shouldCompile", !.src = src,
                             !.verdict = ShouldCompileOf(src)]]
  /\ UNCHANGED <<config, unitFiles, instance, call, wbs, fs, console,
                 counters, nCalls, nExternal>>

NextPrefilter == \E p \in Procs, src \in Probes : ShouldCompile(p, src)

SpecPrefilter == Init /\ [][NextPrefilter]_vars

\* the input's bytes begin with the bytes of a directive
BeginsWithDirective(src) ==
  \E i \in 1..Len(PREFIXES) :
    IsPrefix(Utf8Encode(PREFIXES[i]), BytesOfSource(src))

\* a directive stands in the input, one unit after its start
DirectiveAtOffsetOne(src) ==
  /\ src.data # <<>>
  /\ BeginsWithDirective([src EXCEPT !.data = Tail(@)])

\* C11: shouldCompile answers true exactly for the inputs that begin, at
\* offset 0, with one of the four directives; the answer within the window
\* of PREFIX_LENGTH units is the answer on the whole input; it always
\* returns a value and touches nothing.
PrefilterIsExact ==
  \A p \in Procs :
    ret[p].op = "shouldCompile" =>
      /\ ret[p].kind = "value"
      /\ ret[p].verdict = BeginsWithDirective(ret[p].src)
      /\ ret[p].verdict =
           (\E i \in 1..Len(PREFIXES) : StartsWith(InputOf(ret[p].src), PREFIXES[i]))
      /\ DirectiveAtOffsetOne(ret[p].src) /\ ~BeginsWithDirective(ret[p].src)
           => ret[p].verdict = FALSE
      /\ babel[p] = "null" /\ files = EmptyMap /\ console = {}

\* one caller was refused an input with a directive at offset 1, another
\* got true for a Buffer longer than the window, cut inside a character
PrefilterBothAnswers ==
  \E p, q \in Procs :
    /\ ret[p].op = "shouldCompile" /\ ret[p].verdict = FALSE
    /\ DirectiveAtOffsetOne(ret[p].src)
    /\ ret[q].op = "shouldCompile" /\ ret[q].verdict = TRUE
    /\ ret[q].src.isBuffer
    /\ Len(ret[q].src.data) > PREFIX_LENGTH
    /\ ret[q].src.data[PREFIX_LENGTH] = "C3"

PathFromBytesAlone ==
  /\ \A p \in Procs :
       call[p].pc # "idle" =>
         call[p].cacheFilename = CacheFilenameOf(cacheDir[p], call[p].src)
  /\ \A i \in 1..Len(wbs) :
       /\ wbs[i].filename = CacheFilenameOf(cacheDir[wbs[i].proc], wbs[i].source)
       /\ \A j \in 1..Len(wbs) :
            SameConfiguration(wbs[i].proc, wbs[j].proc) =>
              (wbs[i].filename = wbs[j].filename
                 <=> BytesOfSource(wbs[i].source) = BytesOfSource(wbs[j].source))

\* calls on the same bytes by the same engine return the same bytes
SameBytesSameValue ==
  \A p, q \in Procs :
    (TwcValue(p) /\ TwcValue(q) /\ babelVersion[p] = babelVersion[q]
       /\ BytesOfSource(ret[p].src) = BytesOfSource(ret[q].src))
    => Utf8Encode(ret[p].value) = Utf8Encode(ret[q].value)

\* a call of transformWithCache by p gets past the lookup: the branch is
\* the answer of existsSync for the path of the source
BranchFromBytesAlone(p) ==
  (call[p].pc = "idle" /\ call'[p].pc # "idle") =>
    /\ call'[p].pc = "read"
         <=> ExistsSync(CacheFilenameOf(cacheDir'[p], call'[p].src))
    /\ call'[p].pc = "return" =>
         call'[p].output = OutputOf(babelVersion[p], call'[p].src)

\* C13: the advisory filename takes no part in cache addressing or in the
\* output: the path, the hit/miss branch, the returned bytes and the
\* write-back are those of the configuration and the source bytes whatever
\* the filename; sources of different bytes get different paths.
FilenameIsAdvisory ==
  /\ [](PathFromBytesAlone /\ SameBytesSameValue)
  /\ [][\A p \in Procs : BranchFromBytesAlone(p)]_vars

\* a call has hit the entry that a call on the same bytes under another
\* filename wrote
HitUnderOtherFilename ==
  \E p, q \in Procs :
    /\ TwcValue(p) /\ ret[p].at = "return"
    /\ TwcValue(q) /\ ret[q].at = "readFileSync"
    /\ BytesOfSource(ret[p].src) = BytesOfSource(ret[q].src)
    /\ ret[p].name # ret[q].name
    /\ \E i \in ret[q].doneAtCheck : wbs[i].proc = p

\* C14 (as claimed): the error a caller gets when the engine rejects the
\* input carries the advisory filename of the call along with the engine's
\* diagnostic.
ErrorCarriesFilename ==
  \A p \in Procs :
    (ret[p].kind = "throw" /\ ret[p].at = "transform") =>
      /\ ret[p].error = "SyntaxError"
      /\ ret[p].errorFile = ret[p].name

\* the regular files at entry names
Entries == {path \in DOMAIN files : IsEntry(path) /\ files[path].kind = "file"}

\* the write-back whose rename this step is
RenamesOnto(i, path) ==
  /\ wbs[i].pc = "rename" /\ wbs'[i].pc = "done"
  /\ wbs[i].filename = path
  /\ wbs[i].tmpName \in DOMAIN files
  /\ files'[path] = files[wbs[i].tmpName]

\* a step of the component, not of the environment
ComponentStepKeepsEntries ==
  nExternal' = nExternal =>
    /\ \A path \in Entries :
         /\ path \in DOMAIN files'
         /\ files'[path].kind = "file"
         /\ files'[path].data = files[path].data
    /\ \A path \in DOMAIN files \ DOMAIN files' :
         /\ ~IsEntry(path)
         /\ \E i \in 1..Len(wbs) :
              wbs[i].tmpName = path /\ wbs[i].pc \in {"rename", "unlink"}
    /\ \A path \in DOMAIN files' :
         (IsEntry(path) /\ (path \notin DOMAIN files \/ files'[path] # files[path]))
         => \E i \in 1..Len(wbs) : RenamesOnto(i, path)
    /\ \A dir \in DOMAIN dirs : dir \in DOMAIN dirs'

\* C15: no step of the component removes, shrinks or rewrites an entry:
\* an entry, once there, stays with its content through every lookup and
\* write-back of every process; the only files the component removes are
\* temp files of write-backs, and an entry only changes hands by a rename
\* of a temp file onto it.
EntriesAreNeverDeleted == [][ComponentStepKeepsEntries]_vars

\* an entry written by one write-back is still there, whole, after another
\* write-back onto the same path has failed
EntryOutlivesFailedWriteBack ==
  \E i, j \in 1..Len(wbs) :
    /\ wbs[i].pc = "done" /\ wbs[j].pc = "failed"
    /\ wbs[i].filename = wbs[j].filename
    /\ wbs[j].written > 0
    /\ wbs[i].filename \in Entries
    /\ files[wbs[i].filename].data = Utf8Encode(wbs[i].src)

\* the write-back started by the call of p that is about to return
WriteBackOfCall(p) ==
  CHOOSE i \in 1..Len(wbs) :
    /\ wbs[i].proc = p
    /\ \A j \in (i + 1)..Len(wbs) : wbs[j].proc # p

\* C16 (as claimed): when a miss is about to return its output, no
\* filesystem effect of its write-back has happened: mkdirp has not run,
\* no temp file is written, nothing is renamed.
NoEffectBeforeReturn ==
  \A p \in Procs :
    call[p].pc = "return" =>
      /\ wbs[WriteBackOfCall(p)].pc = "mkdirp"
      /\ wbs[WriteBackOfCall(p)].tmpName \notin DOMAIN files

\* C16 (amended): when a miss is about to return its output, its write-back
\* has at most had mkdirp's system call run; the temp file is not created,
\* nothing is written, renamed or logged by it, and every such step comes
\* after the return.
NoWriteBeforeReturn ==
  \A p \in Procs :
    call[p].pc = "return" =>
      LET wb == wbs[WriteBackOfCall(p)]
      IN  /\ wb.pc \in {"mkdirp", "writeFile"}
          /\ wb.filename = call[p].cacheFilename
          /\ wb.tmpName \notin DOMAIN files
          /\ wb.written = 0
          /\ wb.logged = 0

\* the namespace directory was made by the write-back of a call that has
\* not returned yet
DirectoryMadeBeforeReturn ==
  \E p \in Procs :
    /\ call[p].pc = "return"
    /\ wbs[WriteBackOfCall(p)].pc = "writeFile"
    /\ wbs[WriteBackOfCall(p)].mkdirErr = "ok"
    /\ PathDirname(call[p].cacheFilename) \in DOMAIN dirs
    /\ call[p].cacheFilename \notin DOMAIN files

\* the operations of a write-back, in the order the callbacks nest
StepOrder == <<"mkdirp", "writeFile", "rename", "unlink">>

\* C17: a write-back issues mkdirp, then writeFile of the temp file, then
\* rename onto the entry, each at most once and only after the one before
\* succeeded: after a failed mkdirp no temp file is written, after a failed
\* or unfinished write no rename is issued; the temp file is in the
\* directory of the entry.
StepsInOrder ==
  \A i \in 1..Len(wbs) :
    LET wb == wbs[i]
        full == Len(Utf8Encode(wb.src))
    IN  /\ IsPrefix(wb.steps, StepOrder)
        /\ PathDirname(wb.tmpName) = PathDirname(wb.filename)
        /\ "writeFile" \in Range(wb.steps) => wb.mkdirErr = "ok"
        /\ "writeFile" \notin Range(wb.steps) =>
             (wb.written = 0 /\ wb.tmpName \notin DOMAIN files)
        /\ "rename" \in Range(wb.steps) => wb.written = full
        /\ wb.pc \in {"rename", "unlink", "done"} => wb.written = full
        /\ (wb.pc = "failed" /\ wb.written < full) =>
             (/\ "rename" \notin Range(wb.steps)
              /\ ~(\E j \in 1..Len(wbs) : j # i /\ wbs[j].filename = wb.filename)
                   => wb.filename \notin DOMAIN files)
        /\ wb.pc = "done" => wb.steps = <<"mkdirp", "writeFile", "rename">>

\* one write-back went through its three steps; another stopped at a
\* failed mkdirp
StoppedAtEachStep ==
  \E i, j \in 1..Len(wbs) :
    /\ wbs[i].pc = "done"
    /\ wbs[j].pc = "failed"
    /\ wbs[j].steps = <<"mkdirp">>
    /\ wbs[j].mkdirErr \notin {"", "ok"}

\* a step of write-back i from its rename on
RenameFailureStep(i) ==
  /\ wbs[i].pc = "rename" =>
       /\ wbs'[i].pc \in {"rename", "done", "unlink"}
       /\ wbs'[i].pc = "rename" => wbs'[i] = wbs[i]
       /\ wbs'[i].pc = "unlink" =>
            /\ files' = files
            /\ wbs'[i].logged = wbs[i].logged + 1
            /\ ret' = ret /\ call' = call
  /\ wbs[i].pc = "unlink" =>
       /\ wbs'[i].pc \in {"unlink", "failed"}
       /\ wbs'[i].pc = "unlink" => wbs'[i] = wbs[i]
       /\ wbs'[i].pc = "failed" =>
            /\ wbs'[i].steps = StepOrder
            /\ nExternal' = nExternal =>
                 /\ \A path \in DOMAIN files \ {wbs[i].tmpName} :
                      path \in DOMAIN files' /\ files'[path] = files[path]
                 /\ DOMAIN files' \subseteq DOMAIN files
                 /\ console' = console /\ ret' = ret /\ call' = call
  /\ wbs[i].pc = "failed" => wbs'[i] = wbs[i]

\* C18: a failed rename leaves the filesystem as it is and is followed by
\* one fs.unlink of the temp file; whether that succeeds or fails, the
\* write-back has ended: the entry's path is untouched, nothing is raised
\* or logged for the unlink, no step is issued again.
RenameFailureCleansUp ==
  [][\A i \in 1..Len(wbs) : RenameFailureStep(i)]_vars

\* after a failed rename the temp file was unlinked and the write-back ended
TempRemovedAfterFailedRename ==
  \E i \in 1..Len(wbs) :
    /\ wbs[i].pc = "failed"
    /\ wbs[i].steps = StepOrder
    /\ wbs[i].logged = 1
    /\ wbs[i].tmpName \notin DOMAIN files
    /\ nExternal = 1

(***************************************************************************)
(* Scheduling.  A synchronous call runs to its return; the thread pool     *)
(* carries out every operation it was handed and the event loop runs the   *)
(* callback of every finished operation once the process is not inside a   *)
(* call.                                                                   *)
(***************************************************************************)
\* the next operation or callback of write-back i
WriteBackStep(i) ==
  /\ i \in 1..Len(wbs)
  /\ \/ MkdirpExec(i)
     \/ WriteOpen(i)
     \/ \E n \in 1..4 : WriteChunk(i, n)
     \/ Rename(i)
     \/ Unlink(i)

Fairness ==
  /\ \A p \in Procs : WF_vars(TwcRead(p)) /\ WF_vars(TwcReturn(p))
  /\ \A i \in 1..MaxCalls : WF_vars(WriteBackStep(i))

\* transformWithCache and its write-backs, with the failures of the
\* environment that make each operation of a write-back fail
NextFair ==
  \/ \E p \in Procs, src \in Sources : TwcStart(p, src, "a.js")
  \/ \E p \in Procs : TwcRead(p)
  \/ \E p \in Procs : TwcReturn(p)
  \/ \E i \in 1..Len(wbs) : MkdirpExec(i)
  \/ \E i \in 1..Len(wbs) : WriteOpen(i)
  \/ \E i \in 1..Len(wbs), n \in 1..4 : WriteChunk(i, n)
  \/ \E i \in 1..Len(wbs) : Rename(i)
  \/ \E i \in 1..Len(wbs) : Unlink(i)
  \/ \E path \in DOMAIN files : ExtUnlink(path)
  \/ \E dir \in DOMAIN dirs : ExtChmodDir(dir, "r-x")
  \/ ExtChmodRoot
  \/ ExtDiskFull

SpecFair == Init /\ [][NextFair]_vars /\ Fairness

Terminated(i) == i \in 1..Len(wbs) /\ wbs[i].pc \in {"done", "failed"}

\* the entry of write-back i is there with the whole output
EntryWritten(i) ==
  /\ i \in 1..Len(wbs)
  /\ wbs[i].pc = "done"
  /\ wbs[i].filename \in DOMAIN files
  /\ files[wbs[i].filename].kind = "file"
  /\ files[wbs[i].filename].data = Utf8Encode(wbs[i].src)

\* C19: a write-back issues each of its operations at most once and, under
\* fair scheduling, ends as completed or failed whatever fails; when the
\* environment leaves the filesystem alone, every miss is followed by a
\* state in which its entry holds the whole output.
WriteBackTerminates ==
  /\ [](\A i \in 1..Len(wbs) :
          /\ IsPrefix(wbs[i].steps, StepOrder)
          /\ Terminated(i) => wbs[i].steps # <<>>)
  /\ \A i \in 1..MaxCalls :
       [](Len(wbs) >= i => <>(Terminated(i)))
  /\ \A i \in 1..MaxCalls :
       [](Len(wbs) >= i => <>(nExternal > 0 \/ EntryWritten(i)))

\* two misses on different paths, no interference: both entries are written
AllEntriesWritten ==
  /\ Len(wbs) = MaxCalls
  /\ nExternal = 0
  /\ \A i \in 1..Len(wbs) : EntryWritten(i)
  /\ \A i, j \in 1..Len(wbs) : i # j => wbs[i].filename # wbs[j].filename

\* <tmp>/nuclide-node-transpiler/<fingerprint> of process p
NamespaceOf(p) ==
  [tmpdir |-> "tmp", sub |-> "nuclide-node-transpiler", digest |-> configDigest[p]]

\* write-back i has renamed its temp file onto the entry
Renamed(i) == wbs[i].pc = "done"

\* C20: every path the component uses is
\* <tmp>/nuclide-node-transpiler/<fingerprint>/<sourceDigest>.js (or a temp
\* name in the same directory) under the fingerprint of the process using
\* it; processes with different fingerprints share no path, and a hit
\* under a fingerprint returns what a write-back under that fingerprint
\* wrote.
NamespacesAreIsolated ==
  /\ \A p \in Procs :
       /\ call[p].pc # "idle" =>
            /\ PathDirname(call[p].cacheFilename) = NamespaceOf(p)
            /\ call[p].cacheFilename.base =
                 [stem |-> Sha1Hex(BytesOfSource(call[p].src)), ext |-> ".js"]
       /\ (TwcValue(p) /\ ret[p].at = "readFileSync") =>
            \E i \in 1..Len(wbs) :
              /\ Renamed(i)
              /\ configDigest[wbs[i].proc] = configDigest[p]
              /\ Utf8Encode(ret[p].value) = Utf8Encode(wbs[i].src)
  /\ \A i \in 1..Len(wbs) :
       /\ PathDirname(wbs[i].filename) = NamespaceOf(wbs[i].proc)
       /\ PathDirname(wbs[i].tmpName) = NamespaceOf(wbs[i].proc)
       /\ wbs[i].filename.base =
            [stem |-> Sha1Hex(BytesOfSource(wbs[i].source)), ext |-> ".js"]
       /\ \A q \in Procs :
            (configDigest[q] # Null /\ configDigest[q] # configDigest[wbs[i].proc])
            => (/\ PathDirname(wbs[i].filename) # NamespaceOf(q)
                /\ call[q].pc # "idle" =>
                     call[q].cacheFilename \notin {wbs[i].filename, wbs[i].tmpName})
  /\ \A path \in Entries :
       \E i \in 1..Len(wbs) :
         /\ Renamed(i) /\ wbs[i].filename = path
         /\ PathDirname(path) = NamespaceOf(wbs[i].proc)
         /\ files[path].data = Utf8Encode(wbs[i].src)

\* two processes of different engine versions have each written the entry
\* of the same source bytes, in two directories, with two contents
SameSourceTwoNamespaces ==
  \E i, j \in 1..Len(wbs) :
    /\ Renamed(i) /\ Renamed(j)
    /\ configDigest[wbs[i].proc] # configDigest[wbs[j].proc]
    /\ BytesOfSource(wbs[i].source) = BytesOfSource(wbs[j].source)
    /\ wbs[i].filename.base = wbs[j].filename.base
    /\ wbs[i].filename \in Entries /\ wbs[j].filename \in Entries
    /\ files[wbs[i].filename].data # files[wbs[j].filename].data

\* the mkdirp of write-back i is carried out in this step
MkdirpStepOf(i) == wbs[i].pc = "mkdirp" /\ wbs'[i].pc # "mkdirp"

\* mkdirp on a directory that is there reports no error and changes nothing
ExistingDirectoryIsNoError(i) ==
  (MkdirpStepOf(i) /\ PathDirname(wbs[i].filename) \in DOMAIN dirs) =>
    /\ wbs'[i].mkdirErr = "ok"
    /\ dirs' = dirs

\* C21: mkdirp of a namespace directory that exists already, made by
\* another write-back of the same or of another process, is no error: the
\* write-back goes on to fs.writeFile of its temp file.
DirectoryCreationIsIdempotent ==
  /\ [](\A i \in 1..Len(wbs) :
          /\ wbs[i].mkdirErr # "EEXIST"
          /\ (wbs[i].mkdirErr = "ok" /\ wbs[i].pc # "writeFile")
               => "writeFile" \in Range(wbs[i].steps))
  /\ [][\A i \in 1..Len(wbs) : ExistingDirectoryIsNoError(i)]_vars

\* two write-backs of two processes ran mkdirp on one directory, neither
\* failed, and both have created their temp files
BothCreatorsProceeded ==
  \E i, j \in 1..Len(wbs) :
    /\ wbs[i].proc # wbs[j].proc
    /\ PathDirname(wbs[i].filename) = PathDirname(wbs[j].filename)
    /\ wbs[i].pc = "writing" /\ wbs[j].pc = "writing"
    /\ wbs[i].tmpName \in DOMAIN files /\ wbs[j].tmpName \in DOMAIN files
    /\ nExternal = 0

(***************************************************************************)
(* Temporary files after a write-back has ended.                           *)
(***************************************************************************)
\* C22 (as claimed): once a write-back has terminated, whatever its
\* outcome, the temporary file it created is gone, and when every
\* write-back has terminated only final cache entries are left.  The code
\* does not keep this: the writeFile error branch (lines 447-449) logs and
\* returns without unlinking, and the unlink after a failed rename
\* (line 455) ignores its own failure.
NoTempDebris ==
  /\ \A i \in 1..Len(wbs) :
       Terminated(i) => wbs[i].tmpName \notin DOMAIN files
  /\ (\A i \in 1..Len(wbs) : Terminated(i)) =>
       \A path \in DOMAIN files : IsEntry(path)

(***************************************************************************)
(* Temporary paths are private to their write-back.                        *)
(***************************************************************************)
TmpNames == {wbs[i].tmpName : i \in 1..Len(wbs)}

\* the paths a lookup tests and reads (lines 398-399)
LookupPaths == {call[p].cacheFilename : p \in {q \in Procs : call[q].pc = "read"}}

TmpFileOf(fileTable, i) ==
  IF wbs[i].tmpName \in DOMAIN fileTable
  THEN fileTable[wbs[i].tmpName] ELSE Null

\* a step of the component that is not a step of write-back i leaves the
\* temporary file of write-back i as it is
OthersKeepTmpFile(i) ==
  (nExternal' = nExternal /\ wbs'[i] = wbs[i]) =>
    TmpFileOf(files', i) = TmpFileOf(files, i)

\* C23: the temporary path of a write-back is a dot-prefixed name in the
\* namespace directory of its entry; it is never the path of a cache entry
\* (neither its own final path, another write-back's, nor one a lookup
\* reads) and never the temporary path of another write-back, and no step
\* of the component other than the write-back's own writes, renames or
\* unlinks its temporary file.
TempPathsArePrivate ==
  /\ [](/\ \A i \in 1..Len(wbs) :
             /\ ~IsEntry(wbs[i].tmpName)
             /\ IsEntry(wbs[i].filename)
             /\ PathDirname(wbs[i].tmpName) = PathDirname(wbs[i].filename)
             /\ \A j \in 1..Len(wbs) :
                  /\ wbs[i].tmpName # wbs[j].filename
                  /\ i # j => wbs[i].tmpName # wbs[j].tmpName
        /\ LookupPaths \cap TmpNames = {}
        /\ \A path \in LookupPaths : IsEntry(path))
  /\ [][\A i \in 1..Len(wbs) : OthersKeepTmpFile(i)]_vars

\* two write-backs of one entry hold two fully written temporary files at
\* once
TwoTempFilesOneEntry ==
  \E i, j \in 1..Len(wbs) :
    /\ i # j
    /\ wbs[i].filename = wbs[j].filename
    /\ wbs[i].pc = "rename" /\ wbs[j].pc = "rename"
    /\ wbs[i].tmpName \in DOMAIN files /\ wbs[j].tmpName \in DOMAIN files
    /\ wbs[i].tmpName # wbs[j].tmpName

(***************************************************************************)
(* A cache hit touches nothing.                                            *)
(***************************************************************************)
\* the two steps of a hit: existsSync answering true, then readFileSync
HitStepOf(p) ==
  \/ call[p].pc = "idle" /\ call'[p].pc = "read"
  \/ call[p].pc = "read" /\ call'[p].pc = "idle"

HitHasNoEffect(p) ==
  HitStepOf(p) =>
    /\ UNCHANGED <<rootMode, dirs, files, diskFull>>
    /\ UNCHANGED <<wbs, console>>
    /\ UNCHANGED <<babel, getBabelCalls, engineCalls>>

\* a step of the component that adds a directory is the mkdirp of a
\* write-back, and the directory is the one of its entry
DirectoryMadeByWriteBack ==
  (nExternal' = nExternal /\ DOMAIN dirs' # DOMAIN dirs) =>
    \E i \in 1..Len(wbs) :
      /\ MkdirpStepOf(i)
      /\ DOMAIN dirs' = DOMAIN dirs \cup {PathDirname(wbs[i].filename)}

\* C24: a cache hit has no effect besides its return value: its steps
\* leave the filesystem unchanged, schedule no write-back, log nothing and
\* neither acquire nor invoke the engine; a call that ended as a hit made
\* no engine call; and a namespace directory is only ever created by the
\* mkdirp of a write-back, never by a lookup.
HitHasNoEffects ==
  /\ [](\A p \in Procs :
          (ret[p].op = "transformWithCache" /\ ret[p].at = "readFileSync")
            => ret[p].engine = 0)
  /\ [][(\A p \in Procs : HitHasNoEffect(p)) /\ DirectoryMadeByWriteBack]_vars

\* a process has been served a hit without ever holding the engine or
\* starting a write-back, from a directory made by another process
HitWithoutEngine ==
  \E p \in Procs :
    /\ TwcValue(p) /\ ret[p].at = "readFileSync"
    /\ babel[p] = "null"
    /\ getBabelCalls[p] = 0 /\ engineCalls[p] = 0
    /\ \A i \in 1..Len(wbs) : wbs[i].proc # p
    /\ NamespaceOf(p) \in DOMAIN dirs

(***************************************************************************)
(* Misses are not coalesced.                                               *)
(***************************************************************************)
\* transformWithCache of p starts and finds no entry, the engine accepts
MissStepOf(p) == call[p].pc = "idle" /\ call'[p].pc = "return"

\* a miss calls the engine once and starts one write-back of its own
MissRunsEngineAndWriteBack(p) ==
  MissStepOf(p) =>
    /\ engineCalls'[p] = engineCalls[p] + 1
    /\ Len(wbs') = Len(wbs) + 1
    /\ SubSeq(wbs', 1, Len(wbs)) = wbs
    /\ LET wb == wbs'[Len(wbs')]
       IN  /\ wb.proc = p
           /\ wb.pc = "mkdirp"
           /\ wb.filename = call'[p].cacheFilename
           /\ wb.src = call'[p].output
           /\ \A i \in 1..Len(wbs) : wbs[i].tmpName # wb.tmpName

\* a lookup that starts while its entry is absent is a miss, however many
\* write-backs of that entry are pending
AbsentEntryIsMiss(p) ==
  (call[p].pc = "idle" /\ call'[p].pc \in {"read", "return"}
     /\ call'[p].cacheFilename \notin DOMAIN files)
    => call'[p].pc = "return"

WriteBacksOf(p) == {i \in 1..Len(wbs) : wbs[i].proc = p}

\* C25: misses are not coalesced.  Every miss whose transformation
\* succeeds calls the engine exactly once and starts exactly one write-back
\* with a temporary file of its own; a call made while the entry is absent
\* is a miss whatever write-backs are pending, so k calls on one source
\* before any rename lands give k engine calls and k write-backs with k
\* distinct temporary files and one final path.
MissesAreNotCoalesced ==
  /\ [](\A p \in Procs :
          /\ Cardinality(WriteBacksOf(p)) <= engineCalls[p]
          /\ (TwcValue(p) /\ ret[p].at = "return") => ret[p].engine = 1
          /\ Cardinality({wbs[i].tmpName : i \in WriteBacksOf(p)})
               = Cardinality(WriteBacksOf(p)))
  /\ [][\A p \in Procs :
          MissRunsEngineAndWriteBack(p) /\ AbsentEntryIsMiss(p)]_vars

\* one process has missed twice on one source before any rename: two engine
\* calls, two pending write-backs of one entry, two temporary paths
TwoMissesTwoWriteBacks ==
  \E p \in Procs : \E i, j \in WriteBacksOf(p) :
    /\ i < j
    /\ wbs[i].source = wbs[j].source
    /\ wbs[i].filename = wbs[j].filename
    /\ wbs[i].tmpName # wbs[j].tmpName
    /\ wbs[i].pc \notin {"done", "failed"}
    /\ wbs[j].pc \notin {"done", "failed"}
    /\ engineCalls[p] = 2
    /\ DoneWriteBacks = {}
    /\ nExternal = 0

====
